---- MODULE Spec2Model ----
(***************************************************************************)
(* Leave workflow and notification fan-out of the payroll application:     *)
(* payroll/leavemanagement.py (apply_leave, handle_leave_action,           *)
(* reject_leave, cancel_leave) and the real-time gateway of                *)
(* Tara/consumer.py (LeaveNotificationConsumer).                           *)
(***************************************************************************)
EXTENDS Integers, Sequences, FiniteSets, TLC

\* ------------------------------------------------------------------ bounds
MaxLeaves == 1
MaxTime == 2
NCreds == 3
TicksPerDay == 2
MaxRequests == 2
MaxConns == 2
MaxFrames == 2
MaxSendFailures == 1
MaxInbox == 2
MaxReceived == 3
MaxStored == 2
MaxClock == 8

\* --------------------------------------------------------------- identities
\* EmployeeCredentials ids (request.user.id); 0 stands for None / no row.
Creds == 1..NCreds
NoId == 0
\* Employee (directory) ids live in another id space than the credential ids.
EmployeeOf(c) == c + NCreds
\* One employee of the directory has no EmployeeCredentials row.
EmployeeWithoutCreds == 2 * NCreds + 1
Employees == {EmployeeOf(c) : c \in Creds} \cup {EmployeeWithoutCreds}
\* EmployeeCredentials.objects.get(employee=e): NoId models DoesNotExist.
CredentialsGet(e) ==
    IF \E c \in Creds : EmployeeOf(c) = e
    THEN CHOOSE c \in Creds : EmployeeOf(c) = e
    ELSE NoId

\* ------------------------------------------------------------------ values
Statuses == {"pending", "approved", "rejected", "cancelled"}
Terminal == {"approved", "rejected", "cancelled"}
Comments == {"", "c"}
\* A key the request body does not carry, and request.data.get(key, default).
Missing == "<missing>"
DictGet(value, default) == IF value = Missing THEN default ELSE value
Actions == {"approve", "reject", "cancel", "other"}

\* A timestamp field: empty, a datetime (timezone.now()) or a date
\* (timezone.now().date()).
NoTime == [kind |-> "none", v |-> 0]
DateTime(t) == [kind |-> "datetime", v |-> t]
DateOf(t) == [kind |-> "date", v |-> t \div TicksPerDay]

\* Python's str() of the values a request body can carry for 'employee'.
IntStr == <<"1", "2", "3", "4", "5", "6", "7", "8", "9">>
BodyInt(i) == [kind |-> "int", i |-> i, s |-> ""]
BodyStr(s) == [kind |-> "str", i |-> 0, s |-> s]
BodyNone == [kind |-> "none", i |-> 0, s |-> ""]
PyStr(x) ==
    CASE x.kind = "int" -> IntStr[x.i]
      [] x.kind = "str" -> x.s
      [] OTHER -> "None"
BodyEmployees ==
    {BodyInt(i) : i \in Creds} \cup {BodyStr(IntStr[i]) : i \in Creds}
        \cup {BodyStr("01"), BodyNone}

\* EmployeeReportingManager row of an employee, as the directory returns it.
NoConfig == [exists |-> FALSE, reporting_manager |-> NoId, head_of_department |-> NoId]
Configs ==
    {NoConfig} \cup
    [exists : {TRUE}, reporting_manager : Employees,
     head_of_department : Employees \cup {NoId}]

\* ------------------------------------------------------------------- state
VARIABLES
    leaves,     \* LeaveApplication table: leaves[id] is the stored row
    notifs,     \* LeaveNotification table: notifs[id] is the stored row
    now,        \* timezone.now()
    last,       \* response and outbound effects of the latest request
    inflight,   \* inflight[w]: the request worker w is serving, when requests overlap
    conns,      \* conns[c]: websocket connection c and its LeaveNotificationConsumer
    groups      \* groups[e]: the channels in the channel layer's group user_e

vars == <<leaves, notifs, now, last, inflight, conns, groups>>
wsvars == <<conns, groups>>

\* Columns of LeaveApplication that Model.save() writes.
ModelFields == {"employee", "reviewer", "status", "reviewer_comment", "reviewed_on"}

\* A worker with no request, and the two places a view can be at between its
\* statements that touch the table: the row is loaded and leave.save() is still
\* to come, or the response is returned.
\* saved: the status the request wrote, "" when it wrote nothing.
Idle ==
    [pc |-> "idle", op |-> "none", id |-> NoId, code |-> 0, obj |-> <<>>, fields |-> {},
     saved |-> ""]
Loaded(op, id, code, obj, fields) ==
    [pc |-> "loaded", op |-> op, id |-> id, code |-> code, obj |-> obj, fields |-> fields,
     saved |-> ""]
Returned(op, id, code, saved) ==
    [pc |-> "returned", op |-> op, id |-> id, code |-> code, obj |-> <<>>, fields |-> {},
     saved |-> saved]
Workers == 1..MaxRequests

NoResponse == [op |-> "none", code |-> 0, id |-> NoId, pushed |-> <<>>]
Response(op, code, id, pushed) == [op |-> op, code |-> code, id |-> id, pushed |-> pushed]

\* A websocket connection and its consumer instance.
\* state: none (not opened yet), connecting (connect() has joined the group,
\*   accept() and the acknowledgment are still to come), open, closed
\*   (disconnect() ran), crashed (a handler raised and the consumer ended).
\* pc: where receive() is between its awaits. n: the notification it holds.
\* frame: the text frame receive() was last called with.
\* notification_id: data.get('notification_id') as the client sent it.
\* listed: the result of get_all_notifications. frames: text frames received
\* from the client. failures: sends that raised. inbox: channel-layer messages
\* not yet dispatched. received: what self.send() has written to the client,
\* in order, while the connection exists.
ConnIds == 1..MaxConns
NoFrame == [kind |-> "none", notification_id |-> BodyNone]
NoConn ==
    [state |-> "none", employee_id |-> NoId, pc |-> "idle", frame |-> NoFrame,
     notification_id |-> BodyNone, n |-> NoId, listed |-> <<>>, frames |-> 0,
     failures |-> 0, inbox |-> <<>>, received |-> <<>>]

Init ==
    /\ leaves = <<>>
    /\ notifs = <<>>
    /\ now = 1
    /\ last = NoResponse
    /\ inflight = [w \in Workers |-> Idle]
    /\ conns = [c \in ConnIds |-> NoConn]
    /\ groups = [e \in Creds |-> {}]

\* Time passes between and during requests.
Tick ==
    /\ now < MaxTime
    /\ now' = now + 1
    /\ UNCHANGED <<leaves, notifs, last, inflight, conns, groups>>

\* ------------------------------------------------- review, reject and cancel
\* What a view does with the instance it loaded: the response code, whether it
\* reaches leave.save(), and the in-memory instance at that point.
Outcome(code, save, obj) == [code |-> code, save |-> save, obj |-> obj]

\* Model.save(update_fields=fields) of the in-memory instance obj over the
\* stored row: attributes that are no column of the table are not written.
Save(row, obj, fields) ==
    [f \in DOMAIN row |-> IF f \in fields THEN obj[f] ELSE row[f]]

\* handle_leave_action with the cancel branch saving whatever the status is.
handle_leave_action_CancelAnyStatus(leave, user, action, comment, t) ==
    IF action \notin {"approve", "reject", "cancel"}
    THEN Outcome(400, FALSE, leave)
    ELSE IF action \in {"approve", "reject"}
    THEN IF leave.reviewer # user /\ user \notin leave.cc_to
         THEN Outcome(403, FALSE, leave)
         ELSE IF leave.status # "pending"
         THEN Outcome(400, FALSE, leave)
         ELSE LET reviewed == [leave EXCEPT !.reviewer = user,
                                            !.reviewed_on = DateTime(t),
                                            !.reviewer_comment = comment]
              IN  IF action = "approve"
                  THEN Outcome(200, TRUE, [reviewed EXCEPT !.status = "approved"])
                  ELSE IF comment = ""
                  THEN Outcome(400, FALSE, reviewed)
                  ELSE Outcome(200, TRUE, [reviewed EXCEPT !.status = "rejected"])
    ELSE IF leave.employee # user
    THEN Outcome(403, FALSE, leave)
    ELSE Outcome(200, TRUE, [leave EXCEPT !.status = "cancelled"])

\* handle_leave_action after the row was loaded (lines 312-357).
handle_leave_action(leave, user, action, comment, t) ==
    IF action \notin {"approve", "reject", "cancel"}
    THEN Outcome(400, FALSE, leave)
    ELSE IF action \in {"approve", "reject"}
    THEN IF leave.reviewer # user /\ user \notin leave.cc_to
         THEN Outcome(403, FALSE, leave)
         ELSE IF leave.status # "pending"
         THEN Outcome(400, FALSE, leave)
         ELSE LET reviewed == [leave EXCEPT !.reviewer = user,
                                            !.reviewed_on = DateTime(t),
                                            !.reviewer_comment = comment]
              IN  IF action = "approve"
                  THEN Outcome(200, TRUE, [reviewed EXCEPT !.status = "approved"])
                  ELSE IF comment = ""
                  THEN Outcome(400, FALSE, reviewed)
                  ELSE Outcome(200, TRUE, [reviewed EXCEPT !.status = "rejected"])
    ELSE IF leave.employee # user
    THEN Outcome(403, FALSE, leave)
    ELSE IF leave.status # "pending"
    THEN Outcome(400, FALSE, leave)
    ELSE Outcome(200, TRUE, [leave EXCEPT !.status = "cancelled"])

\* reject_leave without the check of lines 372-373.
reject_leave_NoAuthorization(leave, user, rejection_reason, t) ==
    IF leave.status # "pending"
    THEN Outcome(400, FALSE, leave)
    ELSE Outcome(200, TRUE,
                 [f \in DOMAIN leave \cup {"rejection_reason", "reviewed_at"} |->
                    CASE f = "status" -> "rejected"
                      [] f = "rejection_reason" -> rejection_reason
                      [] f = "reviewed_at" -> DateTime(t)
                      [] OTHER -> leave[f]])

\* reject_leave after the row was loaded (lines 371-384). rejection_reason and
\* reviewed_at are set on the instance only: the table has no such columns.
reject_leave(leave, user, rejection_reason, t) ==
    IF leave.reviewer # user /\ user \notin leave.cc_to
    THEN Outcome(403, FALSE, leave)
    ELSE IF leave.status # "pending"
    THEN Outcome(400, FALSE, leave)
    ELSE Outcome(200, TRUE,
                 [f \in DOMAIN leave \cup {"rejection_reason", "reviewed_at"} |->
                    CASE f = "status" -> "rejected"
                      [] f = "rejection_reason" -> rejection_reason
                      [] f = "reviewed_at" -> DateTime(t)
                      [] OTHER -> leave[f]])

\* cancel_leave after the row was loaded (lines 399-407).
cancel_leave(leave, t) ==
    IF leave.status # "pending"
    THEN Outcome(400, FALSE, leave)
    ELSE Outcome(200, TRUE, [leave EXCEPT !.status = "cancelled",
                                          !.reviewed_on = DateOf(t)])

\* LeaveApplication.objects.get(id=leave_id) / get(pk=pk, employee=user).
LeaveExists(id) == id \in DOMAIN leaves
OwnLeaveExists(pk, user) == pk \in DOMAIN leaves /\ leaves[pk].employee = user

LeaveIds == 1..(MaxLeaves + 1)
\* What a request body can carry under 'comment' / 'rejection_reason'.
CommentInputs == Comments \cup {Missing}

\* A review that pushes the reviewer's list to the reviewer's group.
HandleLeaveAction_Notifying(user, id, action, comment) ==
    /\ IF ~LeaveExists(id)
       THEN /\ leaves' = leaves
            /\ last' = Response("handle_leave_action", 404, id, <<>>)
            /\ conns' = conns
       ELSE LET r == handle_leave_action(leaves[id], user, action,
                                         DictGet(comment, ""), now)
                payload == [type |-> "leave_notifications_update",
                            to |-> user,
                            notifications |-> <<>>,
                            unread_count |-> 0]
            IN  /\ leaves' = IF r.save
                             THEN [leaves EXCEPT ![id] = Save(leaves[id], r.obj, ModelFields)]
                             ELSE leaves
                /\ last' = Response("handle_leave_action", r.code, id, <<>>)
                /\ conns' = IF r.save
                            THEN [c \in DOMAIN conns |->
                                    IF conns[c].state \in {"connecting", "open"}
                                       /\ conns[c].employee_id = user
                                    THEN [conns[c] EXCEPT !.inbox = Append(@, payload)]
                                    ELSE conns[c]]
                            ELSE conns
    /\ UNCHANGED <<notifs, now, inflight, groups>>

\* POST handle_leave_action served start to end.
HandleLeaveAction(user, id, action, comment) ==
    /\ IF ~LeaveExists(id)
       THEN /\ leaves' = leaves
            /\ last' = Response("handle_leave_action", 404, id, <<>>)
       ELSE LET r == handle_leave_action(leaves[id], user, action,
                                         DictGet(comment, ""), now)
            IN  /\ leaves' = IF r.save
                             THEN [leaves EXCEPT ![id] = Save(leaves[id], r.obj, ModelFields)]
                             ELSE leaves
                /\ last' = Response("handle_leave_action", r.code, id, <<>>)
    /\ UNCHANGED <<notifs, now, inflight, conns, groups>>

\* POST reject_leave served start to end.
RejectLeave(user, id, rejection_reason) ==
    /\ IF ~LeaveExists(id)
       THEN /\ leaves' = leaves
            /\ last' = Response("reject_leave", 404, id, <<>>)
       ELSE LET r == reject_leave(leaves[id], user,
                                  DictGet(rejection_reason, "Rejected by reviewer."), now)
            IN  /\ leaves' = IF r.save
                             THEN [leaves EXCEPT ![id] = Save(leaves[id], r.obj, ModelFields)]
                             ELSE leaves
                /\ last' = Response("reject_leave", r.code, id, <<>>)
    /\ UNCHANGED <<notifs, now, inflight, conns, groups>>

\* POST cancel_leave served start to end.
CancelLeave(user, pk) ==
    /\ IF ~OwnLeaveExists(pk, user)
       THEN /\ leaves' = leaves
            /\ last' = Response("cancel_leave", 404, pk, <<>>)
       ELSE LET r == cancel_leave(leaves[pk], now)
            IN  /\ leaves' = IF r.save
                             THEN [leaves EXCEPT ![pk] =
                                     Save(leaves[pk], r.obj, {"status", "reviewed_on"})]
                             ELSE leaves
                /\ last' = Response("cancel_leave", r.code, pk, <<>>)
    /\ UNCHANGED <<notifs, now, inflight, conns, groups>>

\* ------------------------------------------------------------- apply_leave
\* get_notification_message: one text per application, built once from the
\* application and its employee (lines 136-143, 206-208).
get_notification_message(leaveId) == leaveId

\* LeaveNotification.objects.filter(reviewer=recipient) on table ns.
NotificationsOf(ns, recipient) == {n \in DOMAIN ns : ns[n].reviewer = recipient}
\* A count that leaves out the is_read=False filter.
UnreadCount_All(ns, recipient) == Cardinality(NotificationsOf(ns, recipient))

\* LeaveNotification.objects.filter(reviewer=recipient, is_read=False).count()
UnreadCount(ns, recipient) ==
    Cardinality({n \in NotificationsOf(ns, recipient) : ~ns[n].is_read})

\* The orders in which Python may iterate over the set S.
Orders(S) ==
    {o \in [1..Cardinality(S) -> S] : \A i, j \in DOMAIN o : i # j => o[i] # o[j]}

\* The rows in the order o come newest first.
NewestFirst(ns, o) ==
    \A i, j \in DOMAIN o : i < j => ns[o[i]].created_at >= ns[o[j]].created_at

\* A query set that sorts oldest first.
OrderByCreatedAtDesc_Oldest(ns, S) ==
    CHOOSE o \in Orders(S) :
        \A i, j \in DOMAIN o : i < j => ns[o[i]].created_at <= ns[o[j]].created_at

\* .order_by('-created_at') over the rows S of table ns: their ids, newest
\* first; rows created at the same instant come in some order of the
\* database's choosing.
OrderByCreatedAtDesc(ns, S) == CHOOSE o \in Orders(S) : NewestFirst(ns, o)

\* create_notification_data (lines 102-133) of the rows o of table ns, in
\* order: what the payload shows of each row.
NotificationsData(ns, o) ==
    [i \in DOMAIN o |-> [notification_id |-> o[i], is_read |-> ns[o[i]].is_read]]

\* A payload that carries the rows of the newest application only.
Payload_Delta(ns, recipient) ==
    [type |-> "leave_notifications_update",
     to |-> recipient,
     notifications |->
        NotificationsData(ns,
            OrderByCreatedAtDesc(ns, {n \in NotificationsOf(ns, recipient) :
                \A m \in DOMAIN ns : ns[m].leave_application <= ns[n].leave_application})),
     unread_count |-> UnreadCount(ns, recipient)]

\* format_time_style (payroll/utils.py) of timestamp when timezone.now() is t.
\* diff.days is the number of whole 24-hour periods in now - created, rounded
\* down. form: which of the three dictionaries is returned, or null; day and
\* time: the calendar day and the time of day the strftime calls print.
Formatted(form, day, time) == [form |-> form, day |-> day, time |-> time]
NoDay == 0 - 1
DayOf(v) == v \div TicksPerDay
TimeOfDay(v) == v % TicksPerDay

format_time_style(timestamp, t) ==
    IF timestamp = NoTime
    THEN Formatted("null", NoDay, 0)
    ELSE LET days == (t - timestamp.v) \div TicksPerDay
         IN  IF days = 0
             THEN Formatted("display", NoDay, TimeOfDay(timestamp.v))
             ELSE IF days = 1
             THEN Formatted("yesterday", NoDay, TimeOfDay(timestamp.v))
             ELSE Formatted("date", DayOf(timestamp.v), TimeOfDay(timestamp.v))

\* GET get_leave_notifications (lines 20-76) at time t: the body of the
\* response, the rows of request.user newest first, each with its formatted
\* times, and the count of those not read.
get_leave_notifications(ns, user, t) ==
    LET notifications == OrderByCreatedAtDesc(ns, NotificationsOf(ns, user))
    IN  [notifications |->
            [i \in DOMAIN notifications |->
                [notification_id |-> notifications[i],
                 created_at |-> format_time_style(DateTime(ns[notifications[i]].created_at), t),
                 is_read |-> ns[notifications[i]].is_read,
                 read_at |-> format_time_style(ns[notifications[i]].read_at, t)]],
         unread_count |->
            Cardinality({i \in DOMAIN notifications : ~ns[notifications[i]].is_read})]

\* get_unread_count_for_reviewer (lines 90-91) and GET
\* unread_leave_notification_count (lines 93-97).
get_unread_count_for_reviewer(ns, reviewer) ==
    Cardinality({n \in DOMAIN ns : ns[n].reviewer = reviewer /\ ~ns[n].is_read})

unread_leave_notification_count(ns, user) ==
    [unread_count |->
        Cardinality({n \in DOMAIN ns : ns[n].reviewer = user /\ ~ns[n].is_read})]

\* The leave_notifications_update payload handed to recipient's group
\* (lines 227-251): the recipient's rows, newest first, and the unread count.
Payload(ns, recipient) ==
    [type |-> "leave_notifications_update",
     to |-> recipient,
     notifications |->
        NotificationsData(ns, OrderByCreatedAtDesc(ns, NotificationsOf(ns, recipient))),
     unread_count |-> UnreadCount(ns, recipient)]

\* The view keeping the reviewer and cc_to the client sent when it sent any.
PrepareData_KeepClientValues(cfg, reqReviewer, reqCc) ==
    [reviewer |-> IF reqReviewer # NoId THEN reqReviewer
                  ELSE CredentialsGet(cfg.reporting_manager),
     cc_to |-> IF reqCc # {} THEN reqCc
               ELSE IF cfg.head_of_department # NoId
                       /\ CredentialsGet(cfg.head_of_department) # NoId
               THEN {CredentialsGet(cfg.head_of_department)}
               ELSE {}]

\* Lines 172-184: the reviewer and cc_to the view writes into the request data,
\* over whatever the client sent. reviewer NoId models DoesNotExist raised by
\* EmployeeCredentials.objects.get for the reporting manager.
PrepareData(cfg, reqReviewer, reqCc) ==
    [reviewer |-> CredentialsGet(cfg.reporting_manager),
     cc_to |-> IF cfg.head_of_department # NoId
                  /\ CredentialsGet(cfg.head_of_department) # NoId
               THEN {CredentialsGet(cfg.head_of_department)}
               ELSE {}]

\* serializer.save(employee=employee_credentials): the row a valid submission
\* creates.
SerializerSave(employee, data) ==
    [employee |-> employee,
     reviewer |-> data.reviewer,
     cc_to |-> data.cc_to,
     status |-> "pending",
     reviewer_comment |-> "",
     reviewed_on |-> NoTime]

\* LeaveNotification(leave_application=, reviewer=, message=) as bulk_create
\* stores it.
NewNotification(leaveId, recipient, message, t) ==
    [leave_application |-> leaveId,
     reviewer |-> recipient,
     message |-> message,
     is_read |-> FALSE,
     created_at |-> t,
     read_at |-> NoTime]

\* Lines 210-213: set(cc_recipients) plus the reviewer.
RecipientsToNotify(leave) ==
    leave.cc_to \cup (IF leave.reviewer # NoId THEN {leave.reviewer} ELSE {})

\* The view without the DoesNotExist handler of lines 166-170.
ConfigMissing_Unhandled(cfg) == FALSE

\* Lines 161-170: EmployeeReportingManager.objects.get raises DoesNotExist,
\* which the view answers with 400.
ConfigMissing(cfg) == ~cfg.exists

\* The view without the check of line 154.
IsSelfService_Unchecked(user, body) == TRUE

\* Iterating over a list of the CC recipients followed by the reviewer
\* instead of a set.
IterationOrders_List(leave) ==
    {o \in [1..(Cardinality(leave.cc_to) + 1) -> leave.cc_to \cup {leave.reviewer}] :
        /\ o[Cardinality(leave.cc_to) + 1] = leave.reviewer
        /\ \A c \in leave.cc_to : \E i \in 1..Cardinality(leave.cc_to) : o[i] = c}

\* Leaving the block without the rollback: the writes made before the
\* exception stay.
AtomicExit_NoRollback(raised, before, after) == after

\* Line 154: the caller's credential id against the body's 'employee'.
IsSelfService(user, body) == PyStr(BodyInt(user)) = PyStr(body)

\* The orders in which the comprehension of line 222 and the loop of line 227
\* visit recipients_to_notify, a set: each recipient once.
IterationOrders(leave) == Orders(RecipientsToNotify(leave))

\* What leaving the inner transaction.atomic() block does to the tables: an
\* exception rolls back to the savepoint taken on entry, a normal exit keeps
\* the writes.
AtomicExit(raised, before, after) == IF raised THEN before ELSE after

FailPoints == {"none", "save", "bulk_create", "push", "response"}

ApplyResult(code, db, id, pushed) ==
    [code |-> code, leaves |-> db.leaves, notifs |-> db.notifs, id |-> id, pushed |-> pushed]

\* apply_leave with a push that raises caught and ignored inside the loop.
apply_leave_SwallowPushError(db, user, body, cfg, isQueryDict, reqReviewer, reqCc, valid, fail, k, order, t) ==
    IF ~IsSelfService(user, body)
    THEN ApplyResult(403, db, NoId, <<>>)
    ELSE IF ConfigMissing(cfg)
    THEN ApplyResult(400, db, NoId, <<>>)
    ELSE LET data == PrepareData(cfg, reqReviewer, reqCc) IN
    IF data.reviewer = NoId \/ ~isQueryDict
    THEN ApplyResult(500, db, NoId, <<>>)
    ELSE IF ~valid
    THEN ApplyResult(400, db, NoId, <<>>)
    ELSE LET id == Len(db.leaves) + 1
             leave == SerializerSave(user, data)
             recipients == RecipientsToNotify(leave)
             message == get_notification_message(id)
             created == [i \in 1..Len(order) |-> NewNotification(id, order[i], message, t)]
             saved == [leaves |-> Append(db.leaves, leave), notifs |-> db.notifs]
             inserted == [leaves |-> saved.leaves, notifs |-> db.notifs \o created]
             reached == IF fail = "push" THEN k - 1 ELSE Len(order)
             pushed == [i \in 1..reached |-> Payload(inserted.notifs, order[i])]
         IN  CASE fail = "save" ->
                    ApplyResult(500, AtomicExit(TRUE, db, db), NoId, <<>>)
               [] fail = "bulk_create" \/ recipients = {} ->
                    ApplyResult(500, AtomicExit(TRUE, db, saved), NoId, <<>>)
               [] fail = "response" ->
                    ApplyResult(500, AtomicExit(TRUE, db, inserted), NoId, pushed)
               [] OTHER ->
                    ApplyResult(201, AtomicExit(FALSE, db, inserted), id, pushed)

\* apply_leave (lines 148-266) on tables db for the authenticated user.
\* fail names the statement of the transaction block that raises (k: the
\* recipient at which building or broadcasting the payload raises), order the
\* iteration order of recipients_to_notify.
apply_leave(db, user, body, cfg, isQueryDict, reqReviewer, reqCc, valid, fail, k, order, t) ==
    IF ~IsSelfService(user, body)
    THEN ApplyResult(403, db, NoId, <<>>)
    ELSE IF ConfigMissing(cfg)
    THEN ApplyResult(400, db, NoId, <<>>)
    ELSE LET data == PrepareData(cfg, reqReviewer, reqCc) IN
    IF data.reviewer = NoId \/ ~isQueryDict
    THEN ApplyResult(500, db, NoId, <<>>)
    ELSE IF ~valid
    THEN ApplyResult(400, db, NoId, <<>>)
    ELSE LET id == Len(db.leaves) + 1
             leave == SerializerSave(user, data)
             recipients == RecipientsToNotify(leave)
             message == get_notification_message(id)
             created == [i \in 1..Len(order) |-> NewNotification(id, order[i], message, t)]
             saved == [leaves |-> Append(db.leaves, leave), notifs |-> db.notifs]
             inserted == [leaves |-> saved.leaves, notifs |-> db.notifs \o created]
             reached == IF fail = "push" THEN k - 1 ELSE Len(order)
             pushed == [i \in 1..reached |-> Payload(inserted.notifs, order[i])]
         IN  CASE fail = "save" ->
                    ApplyResult(500, AtomicExit(TRUE, db, db), NoId, <<>>)
               [] fail = "bulk_create" \/ recipients = {} ->
                    ApplyResult(500, AtomicExit(TRUE, db, saved), NoId, <<>>)
               [] fail \in {"push", "response"} ->
                    ApplyResult(500, AtomicExit(TRUE, db, inserted), NoId, pushed)
               [] OTHER ->
                    ApplyResult(201, AtomicExit(FALSE, db, inserted), id, pushed)

\* The submissions the model draws. An input the view never reads on the path
\* the request takes is held at one value (form-encoded, valid, nothing
\* raises, no reviewer or cc_to of the client's own, no recipients iterated).
ApplyRequest(user, body, cfg, isQueryDict, reqReviewer, reqCc, valid, fail, k, order) ==
    [user |-> user, body |-> body, cfg |-> cfg, isQueryDict |-> isQueryDict,
     reqReviewer |-> reqReviewer, reqCc |-> reqCc, valid |-> valid, fail |-> fail, k |-> k,
     order |-> order]

Refused(user, body, cfg) ==
    \/ ~IsSelfService(user, body)
    \/ ~cfg.exists
    \/ CredentialsGet(cfg.reporting_manager) = NoId

\* The requests that reach the transaction or its preparation, each with every
\* order in which line 216 may iterate the recipients of its application.
ServedRequests ==
    UNION {{ApplyRequest(b.user, b.body, b.cfg, b.isQueryDict, b.reqReviewer, b.reqCc,
                         b.valid, b.fail, b.k, order) :
                order \in IterationOrders(
                    SerializerSave(b.user, PrepareData(b.cfg, b.reqReviewer, b.reqCc)))} :
           b \in {rq \in {ApplyRequest(user, body, cfg, isQueryDict, rv[1], rv[2],
                                       valid, fail, k, <<>>) :
                            user \in Creds, body \in {BodyInt(c) : c \in Creds},
                            cfg \in Configs \ {NoConfig}, isQueryDict \in BOOLEAN,
                            rv \in {<<NoId, {}>>} \cup {<<c, {c}>> : c \in {1}},
                            valid \in BOOLEAN, fail \in FailPoints, k \in 1..2} :
                    /\ ~Refused(rq.user, rq.body, rq.cfg)
                    /\ ~rq.isQueryDict => (rq.valid /\ rq.fail = "none")
                    /\ ~rq.valid => rq.fail = "none"
                    /\ rq.fail = "push" =>
                          rq.k <= Cardinality(RecipientsToNotify(
                                    SerializerSave(rq.user,
                                        PrepareData(rq.cfg, rq.reqReviewer, rq.reqCc))))
                    /\ rq.fail # "push" => rq.k = 1}}

ApplyRequests ==
    {rq \in {ApplyRequest(user, body, cfg, TRUE, NoId, {}, TRUE, "none", 1, <<>>) :
                user \in Creds, body \in BodyEmployees, cfg \in Configs} :
        Refused(rq.user, rq.body, rq.cfg)}
    \cup ServedRequests

\* channel_layer.group_send(user_<p.to>, {type: send_leave_notification,
\* payload: p}) for every p of payloads in turn: a copy of the message is put
\* on the channel of every member of the group. A consumer that ended reads
\* its channel no more.
GroupSendAll_Everyone(cs, gs, payloads) ==
    [c \in ConnIds |->
        IF cs[c].state \in {"connecting", "open"}
        THEN [cs[c] EXCEPT !.inbox = @ \o payloads]
        ELSE cs[c]]

GroupSendAll(cs, gs, payloads) ==
    [c \in ConnIds |->
        IF cs[c].state \in {"connecting", "open"}
        THEN LET Mine(p) == c \in gs[p.to]
             IN  [cs[c] EXCEPT !.inbox = @ \o SelectSeq(payloads, Mine)]
        ELSE cs[c]]

\* POST apply_leave served start to end; every payload it builds goes to the
\* recipient's group through broadcast_leave_notification_to_employee.
ApplyLeave(rq) ==
    /\ LET r == apply_leave([leaves |-> leaves, notifs |-> notifs], rq.user, rq.body,
                            rq.cfg, rq.isQueryDict, rq.reqReviewer, rq.reqCc,
                            rq.valid, rq.fail, rq.k, rq.order, now)
       IN  /\ leaves' = r.leaves
           /\ notifs' = r.notifs
           /\ last' = Response("apply_leave", r.code, r.id, r.pushed)
           /\ conns' = GroupSendAll(conns, groups, r.pushed)
    /\ UNCHANGED <<now, inflight, groups>>

\* ------------------------------------------------------ overlapping requests
\* The views run outside any transaction and take no row lock (no
\* select_for_update): between LeaveApplication.objects.get and leave.save()
\* another worker's request can load or save the same row.

\* Worker w runs a view from its start to the statement before leave.save(),
\* or to the response when the view returns earlier.
Load(w, op, id, found, r, fields) ==
    /\ inflight[w].pc = "idle"
    /\ inflight' = [inflight EXCEPT ![w] =
            IF ~found THEN Returned(op, id, 404, "")
            ELSE IF r.save THEN Loaded(op, id, r.code, r.obj, fields)
            ELSE Returned(op, id, r.code, "")]
    /\ UNCHANGED <<leaves, notifs, now, last, conns, groups>>

LoadHandleLeaveAction(w, user, id, action, comment) ==
    Load(w, "handle_leave_action", id, LeaveExists(id),
         IF LeaveExists(id)
         THEN handle_leave_action(leaves[id], user, action, DictGet(comment, ""), now)
         ELSE Outcome(404, FALSE, <<>>),
         ModelFields)

LoadRejectLeave(w, user, id, rejection_reason) ==
    Load(w, "reject_leave", id, LeaveExists(id),
         IF LeaveExists(id)
         THEN reject_leave(leaves[id], user,
                           DictGet(rejection_reason, "Rejected by reviewer."), now)
         ELSE Outcome(404, FALSE, <<>>),
         ModelFields)

LoadCancelLeave(w, user, pk) ==
    Load(w, "cancel_leave", pk, OwnLeaveExists(pk, user),
         IF OwnLeaveExists(pk, user)
         THEN cancel_leave(leaves[pk], now)
         ELSE Outcome(404, FALSE, <<>>),
         {"status", "reviewed_on"})

\* Worker w runs leave.save() on the instance it loaded and returns the response.
SaveLoaded(w) ==
    /\ inflight[w].pc = "loaded"
    /\ leaves' = [leaves EXCEPT ![inflight[w].id] =
                    Save(leaves[inflight[w].id], inflight[w].obj, inflight[w].fields)]
    /\ inflight' = [inflight EXCEPT ![w] =
                      Returned(inflight[w].op, inflight[w].id, inflight[w].code,
                               inflight[w].obj.status)]
    /\ UNCHANGED <<notifs, now, last, conns, groups>>

\* -------------------------------------------------------- real-time gateway
\* LeaveNotificationConsumer (Tara/consumer.py, lines 39-187). One consumer
\* instance serves one connection and runs one handler at a time; every await
\* of a handler is a point where the handlers of other connections and the
\* views run.

\* The acknowledgment without the connection's employee id.
Ack_Anonymous(e) == [type |-> "ws_connected", employee_id |-> NoId]

\* The frames self.send() writes.
Ack(e) == [type |-> "ws_connected", employee_id |-> e]
ErrorReply(message) == [type |-> "error", message |-> message]
\* The payload without the last_read_notification entry of lines 75-78.
WsPayload_Unannotated(to, listed, unread_count, notification_id) ==
    [type |-> "leave_notifications_update",
     to |-> to,
     notifications |-> listed,
     unread_count |-> unread_count]

\* The payload of lines 71-79, going to group user_<to>. read_at is
\* format_time_style(timezone.now()), which is now in the form {display: clock
\* time}; the clock text is left out.
WsPayload(to, listed, unread_count, notification_id) ==
    [type |-> "leave_notifications_update",
     to |-> to,
     notifications |-> listed,
     unread_count |-> unread_count,
     last_read_notification |-> [notification_id |-> notification_id,
                                 read_at |-> "display"]]

\* The primary key a value of the client denotes in LeaveNotification.objects
\* .get(id=value): the integer, the integer a string spells, none for None.
\* A string that spells no integer makes the lookup raise ValueError.
BadPk(v) == v.kind = "str" /\ ~(\E k \in DOMAIN IntStr : IntStr[k] = v.s)
PkOf(v) ==
    CASE v.kind = "int" -> v.i
      [] v.kind = "str" /\ ~BadPk(v) -> CHOOSE k \in DOMAIN IntStr : IntStr[k] = v.s
      [] OTHER -> NoId

\* The text frames a client sends. invalid_json: json.loads raises;
\* not_object: JSON that is no object, so data.get raises; other: an object
\* whose type is not mark_read.
NotificationIds == 1..(2 * MaxLeaves)
Frames ==
    [kind : {"invalid_json", "not_object", "other"}, notification_id : {BodyNone}]
    \cup [kind : {"mark_read"},
          notification_id : {BodyInt(n) : n \in NotificationIds}
                            \cup {BodyStr("1"), BodyStr("abc"), BodyNone}]

\* get_notification without the reviewer_id filter of line 168.
get_notification_AnyRecipient(ns, notification_id, employee_id) ==
    LET n == PkOf(notification_id)
    IN  IF n \in DOMAIN ns THEN n ELSE NoId

\* get_notification (lines 159-171): the row with this id addressed to the
\* connection's employee, NoId (None) when there is none.
get_notification(ns, notification_id, employee_id) ==
    LET n == PkOf(notification_id)
    IN  IF n \in DOMAIN ns /\ ns[n].reviewer = employee_id THEN n ELSE NoId

\* mark_notification_read flipping is_read instead of setting it.
mark_notification_read_Toggle(ns, n, t) ==
    [ns EXCEPT ![n].is_read = ~@, ![n].read_at = DateTime(t)]

\* mark_notification_read writing every row of the table.
mark_notification_read_AllRows(ns, n, t) ==
    [m \in DOMAIN ns |-> [ns[m] EXCEPT !.is_read = TRUE, !.read_at = DateTime(t)]]

\* mark_notification_read saving update_fields=['is_read'] only.
mark_notification_read_IsReadOnly(ns, n, t) ==
    [ns EXCEPT ![n].is_read = TRUE]

\* mark_notification_read (lines 173-179) on table ns at time t.
mark_notification_read(ns, n, t) ==
    [ns EXCEPT ![n].is_read = TRUE, ![n].read_at = DateTime(t)]

\* get_all_notifications (lines 108-157): what the payload shows of each row
\* addressed to the connection's employee.
get_all_notifications(ns, employee_id) ==
    LET o == OrderByCreatedAtDesc(ns, NotificationsOf(ns, employee_id))
    IN  [i \in DOMAIN o |-> [notification_id |-> o[i], is_read |-> ns[o[i]].is_read]]

\* The consumer of a connection after its handler returned.
HandlerDone(conn) ==
    [conn EXCEPT !.pc = "idle", !.notification_id = BodyNone, !.n = NoId, !.listed = <<>>]
\* The except branch of receive (lines 89-94).
ReplyError(conn, message) ==
    [HandlerDone(conn) EXCEPT !.received = Append(@, ErrorReply(message))]
\* An exception leaves the handler: the consumer ends and the server closes the
\* socket. disconnect() is not run, so the channel stays in its group.
Crash(conn) ==
    [HandlerDone(conn) EXCEPT !.state = "crashed", !.inbox = <<>>, !.received = <<>>]

\* connect, lines 41-45: the channel joins group user_<employee_id>.
\* A connect() that replays what was handed to the group before it joined.
Connect_Replay(c, e) ==
    /\ conns[c].state = "none"
    /\ \A d \in ConnIds : d < c => conns[d].state # "none"
    /\ conns' = LET ForMe(p) == p.to = e
                IN  [conns EXCEPT ![c].state = "connecting", ![c].employee_id = e,
                                  ![c].inbox = SelectSeq(last.pushed, ForMe)]
    /\ groups' = [groups EXCEPT ![e] = @ \cup {c}]
    /\ UNCHANGED <<leaves, notifs, now, last, inflight>>

Connect(c, e) ==
    /\ conns[c].state = "none"
    /\ \A d \in ConnIds : d < c => conns[d].state # "none"
    /\ conns' = [conns EXCEPT ![c].state = "connecting", ![c].employee_id = e]
    /\ groups' = [groups EXCEPT ![e] = @ \cup {c}]
    /\ UNCHANGED <<leaves, notifs, now, last, inflight>>

\* connect, lines 46-50: accept() and the acknowledgment.
Accept(c) ==
    /\ conns[c].state = "connecting"
    /\ conns' = [conns EXCEPT ![c].state = "open",
                              ![c].received = Append(@, Ack(conns[c].employee_id))]
    /\ UNCHANGED <<leaves, notifs, now, last, inflight, groups>>

\* disconnect, lines 52-53, after which the consumer stops.
Disconnect(c) ==
    /\ conns[c].state = "open"
    /\ conns[c].pc = "idle"
    /\ conns' = [conns EXCEPT ![c].state = "closed", ![c].inbox = <<>>,
                              ![c].received = <<>>, ![c].frame = NoFrame]
    /\ groups' = [groups EXCEPT ![conns[c].employee_id] = @ \ {c}]
    /\ UNCHANGED <<leaves, notifs, now, last, inflight>>

\* Every channel can take k more messages.
RoomFor(k) == \A c \in ConnIds : Len(conns[c].inbox) + k <= MaxInbox

\* Text frames received, and sends that raised, over all connections.
RECURSIVE SumFrames(_)
SumFrames(c) == IF c = 0 THEN 0 ELSE conns[c].frames + SumFrames(c - 1)
FramesReceived == SumFrames(MaxConns)
RECURSIVE SumFailures(_)
SumFailures(c) == IF c = 0 THEN 0 ELSE conns[c].failures + SumFailures(c - 1)
SendsFailed == SumFailures(MaxConns)

\* receive, lines 57-63: a text frame arrives and is handled up to the return
\* of get_notification. fail: the store raises.
Receive(c, frame, fail) ==
    /\ conns[c].state = "open"
    /\ conns[c].pc = "idle"
    /\ FramesReceived < MaxFrames
    /\ LET conn == [conns[c] EXCEPT !.frames = @ + 1, !.frame = frame]
           n == get_notification(notifs, frame.notification_id, conn.employee_id)
       IN  conns' = [conns EXCEPT ![c] =
                CASE frame.kind \in {"invalid_json", "not_object"} -> Crash(conn)
                  [] frame.kind = "other" -> conn
                  [] fail \/ BadPk(frame.notification_id) ->
                        ReplyError(conn, "str(e)")
                  [] n = NoId -> conn
                  [] OTHER -> [conn EXCEPT !.pc = "got", !.n = n,
                                          !.notification_id = frame.notification_id]]
    /\ UNCHANGED <<leaves, notifs, now, last, inflight, groups>>

\* receive, line 64.
MarkNotificationRead(c) ==
    /\ conns[c].pc = "got"
    /\ conns' = [conns EXCEPT ![c].pc = "marked"]
    /\ notifs' = mark_notification_read(notifs, conns[c].n, now)
    /\ UNCHANGED <<leaves, now, last, inflight, groups>>

\* receive, line 65. fail: the store raises, after the mark was written.
GetAllNotifications(c, fail) ==
    /\ conns[c].pc = "marked"
    /\ conns' = [conns EXCEPT ![c] =
            IF fail
            THEN ReplyError(@, "str(e)")
            ELSE [@ EXCEPT !.pc = "listed",
                           !.listed = get_all_notifications(notifs,
                                                            conns[c].employee_id)]]
    /\ UNCHANGED <<leaves, notifs, now, last, inflight, groups>>

\* receive, lines 66-87: the unread count, the payload and its hand-over to
\* the connection's own group.
CountAndSend(c) ==
    /\ conns[c].pc = "listed"
    /\ RoomFor(1)
    /\ conns' =
         LET conn == conns[c]
             payload == WsPayload(conn.employee_id, conn.listed,
                                  UnreadCount(notifs, conn.employee_id),
                                  conn.notification_id)
         IN  GroupSendAll([conns EXCEPT ![c] = HandlerDone(@)], groups, <<payload>>)
    /\ UNCHANGED <<leaves, notifs, now, last, inflight, groups>>

\* What can go wrong in send_leave_notification: json.dumps or self.send raises
\* in the try block (send), and self.send raises in the except branch as well
\* (send_twice).
SendFailures == {"none", "send", "send_twice"}

\* send_leave_notification, lines 96-105: the consumer dispatches the oldest
\* message of its channel.
\* A consumer that dispatches the newest message of its channel first.
Deliver_Newest(c, fail) ==
    /\ conns[c].state = "open"
    /\ conns[c].pc = "idle"
    /\ conns[c].inbox # <<>>
    /\ Len(conns[c].received) < MaxReceived
    /\ fail # "none" => SendsFailed < MaxSendFailures
    /\ LET k == Len(conns[c].inbox)
           conn == [conns[c] EXCEPT !.inbox = SubSeq(@, 1, k - 1)]
           failed == [conn EXCEPT !.failures = @ + 1]
       IN  conns' = [conns EXCEPT ![c] =
                CASE fail = "none" ->
                        [conn EXCEPT !.received = Append(@, conns[c].inbox[k])]
                  [] fail = "send" ->
                        [failed EXCEPT !.received =
                                Append(@, ErrorReply("Error processing notification"))]
                  [] OTHER -> Crash(failed)]
    /\ UNCHANGED <<leaves, notifs, now, last, inflight, groups>>

Deliver(c, fail) ==
    /\ conns[c].state = "open"
    /\ conns[c].pc = "idle"
    /\ conns[c].inbox # <<>>
    /\ Len(conns[c].received) < MaxReceived
    /\ fail # "none" => SendsFailed < MaxSendFailures
    /\ LET conn == [conns[c] EXCEPT !.inbox = Tail(@)]
           failed == [conn EXCEPT !.failures = @ + 1]
       IN  conns' = [conns EXCEPT ![c] =
                CASE fail = "none" ->
                        [conn EXCEPT !.received = Append(@, Head(conns[c].inbox))]
                  [] fail = "send" ->
                        [failed EXCEPT !.received =
                                Append(@, ErrorReply("Error processing notification"))]
                  [] OTHER -> Crash(failed)]
    /\ UNCHANGED <<leaves, notifs, now, last, inflight, groups>>

\* ------------------------------------------------------------ specification
\* Requests served one at a time: every sequence of calls.
Submit ==
    /\ Len(leaves) < MaxLeaves
    /\ \E rq \in ApplyRequests : ApplyLeave(rq)

Next ==
    \/ Tick
    \/ Submit
    \/ \E user \in Creds, id \in LeaveIds, action \in Actions, comment \in CommentInputs :
            HandleLeaveAction(user, id, action, comment)
    \/ \E user \in Creds, id \in LeaveIds, reason \in CommentInputs :
            RejectLeave(user, id, reason)
    \/ \E user \in Creds, pk \in LeaveIds :
            CancelLeave(user, pk)

Spec == Init /\ [][Next]_vars

\* Review, reject and cancel requests of several workers overlapping, on the
\* tables as any one accepted submission leaves them.
InitRace ==
    /\ \E rq \in ApplyRequests :
         LET r == apply_leave([leaves |-> <<>>, notifs |-> <<>>], rq.user, rq.body,
                              rq.cfg, rq.isQueryDict, rq.reqReviewer, rq.reqCc,
                              rq.valid, rq.fail, rq.k, rq.order, 1)
         IN  /\ r.code = 201
             /\ leaves = r.leaves
             /\ notifs = r.notifs
    /\ now = 1
    /\ last = NoResponse
    /\ inflight = [w \in Workers |-> Idle]
    /\ conns = [c \in ConnIds |-> NoConn]
    /\ groups = [e \in Creds |-> {}]

NextRace ==
    \/ Tick
    \/ \E w \in Workers, user \in Creds, id \in LeaveIds, action \in Actions,
          comment \in CommentInputs :
            LoadHandleLeaveAction(w, user, id, action, comment)
    \/ \E w \in Workers, user \in Creds, id \in LeaveIds, reason \in CommentInputs :
            LoadRejectLeave(w, user, id, reason)
    \/ \E w \in Workers, user \in Creds, pk \in LeaveIds :
            LoadCancelLeave(w, user, pk)
    \/ \E w \in Workers : SaveLoaded(w)

SpecRace == InitRace /\ [][NextRace]_vars

\* Submissions and the gateway: connections open, send frames and close while
\* their handlers and the submissions interleave. The submissions are the
\* accepted ones of one employee; the reporting manager and the head of
\* department are the employees who connect.
GatewayEmployees == Creds \ {1}
GatewayRequests ==
    {rq \in ServedRequests :
        /\ rq.user = 1
        /\ rq.cfg.reporting_manager = EmployeeOf(2)
        /\ rq.cfg.head_of_department \in {NoId, EmployeeOf(3)}
        /\ rq.isQueryDict /\ rq.valid /\ rq.reqReviewer = NoId
        /\ rq.fail = "none"}

SubmitToGateway ==
    /\ Len(leaves) < MaxLeaves
    /\ RoomFor(2)
    /\ \E rq \in GatewayRequests : ApplyLeave(rq)

NextWs ==
    \/ Tick
    \/ SubmitToGateway
    \/ \E c \in ConnIds, e \in GatewayEmployees : Connect(c, e)
    \/ \E c \in ConnIds : Accept(c)
    \/ \E c \in ConnIds : Disconnect(c)
    \/ \E c \in ConnIds, frame \in Frames, fail \in BOOLEAN : Receive(c, frame, fail)
    \/ \E c \in ConnIds : MarkNotificationRead(c)
    \/ \E c \in ConnIds, fail \in BOOLEAN : GetAllNotifications(c, fail)
    \/ \E c \in ConnIds : CountAndSend(c)
    \/ \E c \in ConnIds, fail \in SendFailures : Deliver(c, fail)

SpecWs == Init /\ [][NextWs]_vars

\* The gateway alone, on the tables as an accepted submission leaves them and
\* with every send succeeding. A consumer dispatches what arrives for it in
\* turn and an awaited store call returns, so no handler step that stays
\* possible is put off for ever.
InitDelivery ==
    /\ \E rq \in GatewayRequests :
         LET r == apply_leave([leaves |-> <<>>, notifs |-> <<>>], rq.user, rq.body,
                              rq.cfg, rq.isQueryDict, rq.reqReviewer, rq.reqCc,
                              rq.valid, rq.fail, rq.k, rq.order, 1)
         IN  /\ leaves = r.leaves
             /\ notifs = r.notifs
    /\ now = 1
    /\ last = NoResponse
    /\ inflight = [w \in Workers |-> Idle]
    /\ conns = [c \in ConnIds |-> NoConn]
    /\ groups = [e \in Creds |-> {}]

NextDelivery ==
    \/ \E c \in ConnIds, e \in GatewayEmployees : Connect(c, e)
    \/ \E c \in ConnIds : Accept(c)
    \/ \E c \in ConnIds : Disconnect(c)
    \/ \E c \in ConnIds, frame \in Frames, fail \in BOOLEAN : Receive(c, frame, fail)
    \/ \E c \in ConnIds : MarkNotificationRead(c)
    \/ \E c \in ConnIds, fail \in BOOLEAN : GetAllNotifications(c, fail)
    \/ \E c \in ConnIds : CountAndSend(c)
    \/ \E c \in ConnIds : Deliver(c, "none")

Dispatched ==
    \A c \in ConnIds :
        /\ WF_vars(Accept(c))
        /\ WF_vars(MarkNotificationRead(c))
        /\ WF_vars(\E fail \in BOOLEAN : GetAllNotifications(c, fail))
        /\ WF_vars(CountAndSend(c))
        /\ WF_vars(Deliver(c, "none"))

SpecDelivery == InitDelivery /\ [][NextDelivery]_vars /\ Dispatched

\* The workflow and the gateway together: submissions, reviews, rejections and
\* cancellations served while one connection is open and marks notifications
\* read, every store call and every send succeeding.
MarkReadFrames == {frame \in Frames : frame.kind = "mark_read"}

NextAll ==
    \/ SubmitToGateway
    \/ \E user \in Creds, id \in LeaveIds, action \in Actions, comment \in CommentInputs :
            HandleLeaveAction(user, id, action, comment)
    \/ \E user \in Creds, id \in LeaveIds, reason \in CommentInputs :
            RejectLeave(user, id, reason)
    \/ \E user \in Creds, pk \in LeaveIds :
            CancelLeave(user, pk)
    \/ \E e \in GatewayEmployees : Connect(1, e)
    \/ Accept(1)
    \/ \E frame \in MarkReadFrames : Receive(1, frame, FALSE)
    \/ MarkNotificationRead(1)
    \/ GetAllNotifications(1, FALSE)
    \/ CountAndSend(1)
    \/ Deliver(1, "none")

SpecAll == Init /\ [][NextAll]_vars

\* GET get_leave_notifications served.
GetLeaveNotifications(user) ==
    /\ last' = [op |-> "get_leave_notifications", code |-> 200, id |-> NoId,
                pushed |-> <<>>, body |-> get_leave_notifications(notifs, user, now)]
    /\ UNCHANGED <<leaves, notifs, now, inflight, conns, groups>>

\* The notification list read at any time of day on any of the days after a
\* notification was created and, possibly, read.
Clock == 1..MaxClock

InitFormat ==
    /\ \E rq \in GatewayRequests, created \in Clock,
          read \in {NoTime} \cup {DateTime(t) : t \in Clock} :
         LET r == apply_leave([leaves |-> <<>>, notifs |-> <<>>], rq.user, rq.body,
                              rq.cfg, rq.isQueryDict, rq.reqReviewer, rq.reqCc,
                              rq.valid, rq.fail, rq.k, rq.order, created)
         IN  /\ read # NoTime => read.v >= created
             /\ leaves = r.leaves
             /\ notifs = IF read = NoTime THEN r.notifs
                         ELSE mark_notification_read(r.notifs, 1, read.v)
    /\ now \in Clock
    /\ \A n \in DOMAIN notifs :
          /\ notifs[n].created_at <= now
          /\ notifs[n].read_at # NoTime => notifs[n].read_at.v <= now
    /\ last = NoResponse
    /\ inflight = [w \in Workers |-> Idle]
    /\ conns = [c \in ConnIds |-> NoConn]
    /\ groups = [e \in Creds |-> {}]

NextFormat == \E user \in Creds : GetLeaveNotifications(user)

SpecFormat == InitFormat /\ [][NextFormat]_vars

\* Submissions that may fail at any point of their transaction, while a
\* recipient's connection is open and is written what reaches its channel.
FailingGatewayRequests ==
    {rq \in ServedRequests :
        /\ rq.user = 1
        /\ rq.cfg.reporting_manager = EmployeeOf(2)
        /\ rq.cfg.head_of_department \in {NoId, EmployeeOf(3)}
        /\ rq.isQueryDict /\ rq.valid /\ rq.reqReviewer = NoId}

SubmitOrFail ==
    /\ Len(leaves) < MaxLeaves
    /\ RoomFor(1)
    /\ \E rq \in FailingGatewayRequests : ApplyLeave(rq)

NextRollback ==
    \/ Tick
    \/ SubmitOrFail
    \/ \E e \in GatewayEmployees : Connect(1, e)
    \/ Accept(1)
    \/ Disconnect(1)
    \/ Deliver(1, "none")

SpecRollback == Init /\ [][NextRollback]_vars

\* The notification store over several applications: submissions of one
\* employee follow one another while a recipient's connection marks
\* notifications read.
StoreFrames ==
    {[kind |-> "mark_read", notification_id |-> BodyInt(n)] : n \in 1..(2 * MaxStored)}

SubmitToStore ==
    /\ Len(leaves) < MaxStored
    /\ RoomFor(1)
    /\ \E rq \in GatewayRequests : ApplyLeave(rq)

NextStore ==
    \/ Tick
    \/ SubmitToStore
    \/ \E e \in GatewayEmployees : Connect(1, e)
    \/ Accept(1)
    \/ \E frame \in StoreFrames : Receive(1, frame, FALSE)
    \/ MarkNotificationRead(1)
    \/ GetAllNotifications(1, FALSE)
    \/ CountAndSend(1)
    \/ Deliver(1, "none")

SpecStore == Init /\ [][NextStore]_vars

\* ------------------------------------------------------------------ claims
\* A step that served a request (every request writes its response to last;
\* only the passing of time leaves it alone).
TransitionOps == {"handle_leave_action", "reject_leave", "cancel_leave"}
Succeeded(code) == code \in {200, 201}

C2_AtMostOneWinner ==
    \A w1, w2 \in Workers :
        (/\ w1 # w2
         /\ inflight[w1].pc = "returned" /\ inflight[w2].pc = "returned"
         /\ inflight[w1].id = inflight[w2].id
         /\ inflight[w1].saved # inflight[w2].saved)
        => ~(Succeeded(inflight[w1].code) /\ Succeeded(inflight[w2].code))

\* C3: once the stored status of an application is approved, rejected or
\* cancelled, no later step changes any stored field of it.
C3_TerminalImmutable ==
    [][\A id \in DOMAIN leaves :
        leaves[id].status \in Terminal => leaves'[id] = leaves[id]]_vars

\* C4: a rejection without a non-empty comment fails and changes nothing of the
\* stored application, through handle_leave_action with action reject and
\* through reject_leave.
C4_RejectNeedsComment ==
    [][\A id \in DOMAIN leaves, user \in Creds, comment \in {"", Missing} :
        /\ HandleLeaveAction(user, id, "reject", comment) =>
              (~Succeeded(last'.code) /\ leaves' = leaves)
        /\ RejectLeave(user, id, comment) =>
              (~Succeeded(last'.code) /\ leaves' = leaves)
      ]_vars

\* The submissions of an employee with no EmployeeReportingManager row.
NoConfigRequests == {rq \in ApplyRequests : ~rq.cfg.exists}

\* A step that served apply_leave.
ApplyStep == last'.op = "apply_leave" /\ now' = now
NothingCreated == leaves' = leaves /\ notifs' = notifs
\* The credential id a body's 'employee' value denotes: the integer, or the
\* integer a string spells in decimal; NoId when it denotes none.
NamedEmployee(body) ==
    CASE body.kind = "int" -> body.i
      [] body.kind = "str" /\ (\E c \in Creds : IntStr[c] = body.s) ->
            CHOOSE c \in Creds : IntStr[c] = body.s
      [] OTHER -> NoId
\* The submissions whose body names another employee than the caller.
OtherEmployeeRequests ==
    {rq \in ApplyRequests : NamedEmployee(rq.body) \notin {rq.user, NoId}}
\* LeaveNotification rows of application id.
RowsOf(ns, id) == {n \in DOMAIN ns : ns[n].leave_application = id}

\* C5 as stated: apply_leave for an employee with no reporting-manager
\* configuration answers 400 and creates no application, no notification and
\* hands over no push.
C5_NoConfigAnswers400 ==
    [][ApplyStep =>
        \/ (last'.code = 400 /\ NothingCreated /\ last'.pushed = <<>>)
        \/ \A rq \in NoConfigRequests : ~ApplyLeave(rq)
      ]_vars

\* C5 amended: apply_leave for an employee with no reporting-manager
\* configuration always fails, with 400 when the body names the caller and with
\* 403 when it does not, and creates no application, no notification and hands
\* over no push.
C5_NoConfigFails ==
    [][ApplyStep =>
        \A rq \in NoConfigRequests :
            ApplyLeave(rq) =>
                /\ last'.code = IF NamedEmployee(rq.body) = rq.user THEN 400 ELSE 403
                /\ NothingCreated
                /\ last'.pushed = <<>>
      ]_vars

\* C5 witness: a submission was answered 400 and the tables are empty.
C5_Witness ==
    /\ last.op = "apply_leave"
    /\ last.code = 400
    /\ leaves = <<>>
    /\ notifs = <<>>

\* C6: after a successful apply_leave there is exactly one LeaveNotification
\* row of the application per member of reviewer and cc_to (one row for a
\* person in both roles), all rows carry the same message, and each of these
\* recipients was handed exactly one push.
C6_OneNotificationPerRecipient ==
    (last.op = "apply_leave" /\ last.code = 201) =>
        LET leave == leaves[last.id]
            recipients == {leave.reviewer} \cup leave.cc_to
            rows == RowsOf(notifs, last.id)
        IN  /\ \A r \in recipients :
                  Cardinality({n \in rows : notifs[n].reviewer = r}) = 1
            /\ \A n \in rows : notifs[n].reviewer \in recipients
            /\ \A n, m \in rows : notifs[n].message = notifs[m].message
            /\ \A r \in recipients :
                  Cardinality({i \in DOMAIN last.pushed : last.pushed[i].to = r}) = 1
            /\ \A i \in DOMAIN last.pushed : last.pushed[i].to \in recipients

\* C6 witness: a submission succeeded whose reviewer is also its CC recipient.
C6_Witness ==
    /\ last.op = "apply_leave"
    /\ last.code = 201
    /\ leaves[last.id].reviewer \in leaves[last.id].cc_to

\* C7: apply_leave is all-or-nothing: when it returns, either the application
\* and one notification per recipient were added, or the tables are as they
\* were; no application is ever stored without its notifications.
C7_ApplyAllOrNothing ==
    [][ApplyStep =>
        \/ /\ last'.code = 201
           /\ Len(leaves') = Len(leaves) + 1
           /\ last'.id = Len(leaves')
           /\ \A id \in DOMAIN leaves : leaves'[id] = leaves[id]
           /\ \A n \in DOMAIN notifs : notifs'[n] = notifs[n]
           /\ {notifs'[n].reviewer : n \in RowsOf(notifs', last'.id)}
                = {leaves'[last'.id].reviewer} \cup leaves'[last'.id].cc_to
           /\ DOMAIN notifs' \ DOMAIN notifs = RowsOf(notifs', last'.id)
        \/ /\ last'.code # 201
           /\ NothingCreated
      ]_vars

\* C7 witness: a submission failed after its application and notifications
\* were written and a payload was handed over, and no row is left.
C7_Witness ==
    /\ last.op = "apply_leave"
    /\ last.code = 500
    /\ last.pushed # <<>>
    /\ leaves = <<>>
    /\ notifs = <<>>

\* C8: an approve or reject by an actor who is neither the reviewer nor in
\* cc_to, and a cancel by an actor who is not the owner, fail with 403 or 404
\* and leave every stored field unchanged; no failed approve, reject or cancel
\* changes the store.
C8_UnauthorizedChangesNothing ==
    [][(last'.op \in TransitionOps /\ now' = now) =>
        /\ ~Succeeded(last'.code) => (leaves' = leaves /\ notifs' = notifs)
        /\ \A id \in DOMAIN leaves \cap {last'.id}, user \in Creds :
            /\ (user # leaves[id].reviewer /\ user \notin leaves[id].cc_to) =>
                  /\ \A action \in {"approve", "reject"}, comment \in CommentInputs :
                        HandleLeaveAction(user, id, action, comment) =>
                            (last'.code \in {403, 404} /\ leaves' = leaves)
                  /\ \A reason \in CommentInputs :
                        RejectLeave(user, id, reason) =>
                            (last'.code \in {403, 404} /\ leaves' = leaves)
            /\ user # leaves[id].employee =>
                  /\ \A comment \in CommentInputs :
                        HandleLeaveAction(user, id, "cancel", comment) =>
                            (last'.code \in {403, 404} /\ leaves' = leaves)
                  /\ CancelLeave(user, id) =>
                        (last'.code \in {403, 404} /\ leaves' = leaves)
      ]_vars

\* C8 witness: reject_leave on a pending application was refused with 403.
C8_Witness ==
    /\ last.op = "reject_leave"
    /\ last.code = 403
    /\ last.id \in DOMAIN leaves
    /\ leaves[last.id].status = "pending"

\* C9: apply_leave succeeds only when the body names the caller; a submission
\* naming another employee is answered 403 and creates nothing.
C9_SelfServiceOnly ==
    [][ApplyStep =>
        /\ last'.code = 201 =>
              \A rq \in ApplyRequests :
                  ApplyLeave(rq) => NamedEmployee(rq.body) = rq.user
        /\ \/ (last'.code = 403 /\ NothingCreated)
           \/ \A rq \in OtherEmployeeRequests : ~ApplyLeave(rq)
      ]_vars

\* C9 witness: a submission was answered 403.
C9_Witness ==
    /\ last.op = "apply_leave"
    /\ last.code = 403

\* C10 as stated: a successful apply_leave stores status pending, the
\* credentials of the configured reporting manager as reviewer, and cc_to =
\* {head of department} when one is configured, empty otherwise, whatever
\* reviewer or cc_to the body carried.
C10_ReviewerAndCcFromConfigAsStated ==
    [][(ApplyStep /\ last'.code = 201) =>
        \A rq \in ApplyRequests :
            ApplyLeave(rq) =>
                LET leave == leaves'[last'.id]
                IN  /\ leave.status = "pending"
                    /\ EmployeeOf(leave.reviewer) = rq.cfg.reporting_manager
                    /\ rq.cfg.head_of_department # NoId =>
                          /\ Cardinality(leave.cc_to) = 1
                          /\ \A c \in leave.cc_to :
                                EmployeeOf(c) = rq.cfg.head_of_department
                    /\ rq.cfg.head_of_department = NoId => leave.cc_to = {}
      ]_vars

\* C10 amended: a successful apply_leave stores status pending, the
\* credentials of the configured reporting manager as reviewer, and cc_to =
\* {head of department} when one is configured and has credentials, empty
\* otherwise, whatever reviewer or cc_to the body carried.
C10_ReviewerAndCcFromConfig ==
    [][(ApplyStep /\ last'.code = 201) =>
        \A rq \in ApplyRequests :
            ApplyLeave(rq) =>
                LET leave == leaves'[last'.id]
                IN  /\ leave.status = "pending"
                    /\ EmployeeOf(leave.reviewer) = rq.cfg.reporting_manager
                    /\ leave.cc_to =
                          {c \in Creds : EmployeeOf(c) = rq.cfg.head_of_department}
      ]_vars

\* C10 witness: a submission succeeded with a CC recipient other than the
\* reviewer.
C10_Witness ==
    /\ last.op = "apply_leave"
    /\ last.code = 201
    /\ leaves[last.id].cc_to # {}
    /\ leaves[last.id].reviewer \notin leaves[last.id].cc_to

\* ------------------------------------------------------ claims on the gateway
\* A step in which the consumer of connection c was handed a text frame.
FrameStep(c) == conns'[c].frames # conns[c].frames
\* No message was put on any channel.
NothingHandedOver == \A d \in ConnIds : conns'[d].inbox = conns[d].inbox
\* The notification the value v names is not one addressed to employee e.
NotOwn(v, e) == PkOf(v) \notin NotificationsOf(notifs, e)

\* C11: a mark_read naming a notification that does not exist, or one
\* addressed to another recipient than the connection's employee, changes no
\* LeaveNotification row and hands no payload to any group: the handler ends
\* without reaching the mark or the hand-over.
C11_ForeignMarkReadIsNotFound ==
    [][\A c \in ConnIds : FrameStep(c) =>
        \A frame \in Frames, fail \in BOOLEAN :
            (/\ frame.kind = "mark_read"
             /\ NotOwn(frame.notification_id, conns[c].employee_id)
             /\ Receive(c, frame, fail))
            => /\ notifs' = notifs
               /\ conns'[c].pc = "idle"
               /\ NothingHandedOver
      ]_vars

\* C11 witness: a connection was sent a mark_read naming an existing
\* notification of another recipient; the row is unread and the handler is over.
C11_Witness ==
    \E c \in ConnIds :
        /\ conns[c].state = "open"
        /\ conns[c].pc = "idle"
        /\ conns[c].frame.kind = "mark_read"
        /\ PkOf(conns[c].frame.notification_id) \in DOMAIN notifs
        /\ notifs[PkOf(conns[c].frame.notification_id)].reviewer # conns[c].employee_id
        /\ ~notifs[PkOf(conns[c].frame.notification_id)].is_read

\* C12: marking a notification read is idempotent. Every mark_read of a
\* notification by its recipient, the first and any later one, leaves is_read
\* true and read_at set; a mark_read of a notification already read is no
\* error (the handler goes on to the mark and sends no error reply), and the
\* read_at it stores is not earlier than the one stored before.
C12_MarkReadIdempotent ==
    [][\A c \in ConnIds :
        /\ MarkNotificationRead(c) =>
              LET n == conns[c].n
              IN  /\ notifs'[n].is_read
                  /\ notifs'[n].read_at.kind = "datetime"
                  /\ notifs[n].is_read => notifs'[n].read_at.v >= notifs[n].read_at.v
        /\ FrameStep(c) =>
              \A frame \in Frames :
                (/\ frame.kind = "mark_read"
                 /\ ~NotOwn(frame.notification_id, conns[c].employee_id)
                 /\ notifs[PkOf(frame.notification_id)].is_read
                 /\ Receive(c, frame, FALSE))
                => /\ conns'[c].pc = "got"
                   /\ conns'[c].received = conns[c].received
      ]_vars

\* C12 witness: a connection that was already delivered the update of its
\* mark_read of notification n has marked n again, at a later time.
C12_Witness ==
    \E c \in ConnIds :
        /\ conns[c].pc = "marked"
        /\ notifs[conns[c].n].is_read
        /\ notifs[conns[c].n].read_at = DateTime(MaxTime)
        /\ \E i \in DOMAIN conns[c].received :
              /\ "last_read_notification" \in DOMAIN conns[c].received[i]
              /\ PkOf(conns[c].received[i].last_read_notification.notification_id)
                    = conns[c].n

\* C13: in every reachable state every LeaveNotification row has read_at set
\* exactly when is_read is true, and a read_at that is set is not earlier than
\* created_at, whatever submissions and mark_read handlers of several
\* connections have interleaved.
C13_ReadAtIffIsRead ==
    \A n \in DOMAIN notifs :
        /\ notifs[n].is_read <=> notifs[n].read_at # NoTime
        /\ notifs[n].is_read => notifs[n].read_at.v >= notifs[n].created_at

\* C13 witness: two connections are inside mark_read at once, one row is read
\* at a later time than it was created and another row is still unread.
C13_Witness ==
    /\ \E c, d \in ConnIds : c # d /\ conns[c].pc = "marked" /\ conns[d].pc = "got"
    /\ \E n, m \in DOMAIN notifs :
          /\ notifs[n].is_read
          /\ notifs[n].read_at.v > notifs[n].created_at
          /\ ~notifs[m].is_read

\* The frame p is the update a mark_read of notification n produces.
UpdateOf(p, n) ==
    /\ "last_read_notification" \in DOMAIN p
    /\ PkOf(p.last_read_notification.notification_id) = n

\* C14: when the handler of a mark_read of notification n by connection c of
\* employee e hands over its payload, the payload goes on the channel of every
\* connection of group user_e and on no other channel, it shows n with is_read
\* true and its last_read_notification.notification_id names n; a message on a
\* channel leaves it only as the oldest one, written unchanged to the client,
\* or when the connection ends; and every channel is drained, so that each
\* connection of the group that stays open receives the payload.
C14_MarkReadUpdatesOwnGroup ==
    /\ [][\A c \in ConnIds :
            /\ CountAndSend(c) =>
                  LET e == conns[c].employee_id
                      n == conns[c].n
                  IN  /\ n \in DOMAIN notifs /\ notifs[n].reviewer = e
                      /\ \A d \in ConnIds :
                            IF d \in groups[e] /\ conns[d].state \in {"connecting", "open"}
                            THEN /\ Len(conns'[d].inbox) = Len(conns[d].inbox) + 1
                                 /\ SubSeq(conns'[d].inbox, 1, Len(conns[d].inbox))
                                        = conns[d].inbox
                                 /\ LET p == conns'[d].inbox[Len(conns'[d].inbox)]
                                    IN  /\ p.type = "leave_notifications_update"
                                        /\ p.to = e
                                        /\ UpdateOf(p, n)
                                        /\ \E i \in DOMAIN p.notifications :
                                               p.notifications[i] =
                                                   [notification_id |-> n, is_read |-> TRUE]
                            ELSE conns'[d].inbox = conns[d].inbox
            /\ (conns[c].inbox # <<>> /\ conns'[c].inbox = Tail(conns[c].inbox)) =>
                  \/ conns'[c].state # "open"
                  \/ conns'[c].received = Append(conns[c].received, Head(conns[c].inbox))
       ]_vars
    /\ \A c \in ConnIds : (conns[c].inbox # <<>>) ~> (conns[c].inbox = <<>>)

\* C14 witness: the reviewer has two connections and both were delivered the
\* update of a mark_read one of them sent, while the connection of the other
\* recipient has none.
C14_Witness ==
    \E n \in DOMAIN notifs :
        /\ notifs[n].is_read
        /\ \A c \in ConnIds :
              /\ conns[c].state = "open"
              /\ conns[c].employee_id = notifs[n].reviewer
              /\ \E i \in DOMAIN conns[c].received : UpdateOf(conns[c].received[i], n)

\* C15: every mark_read that fails (the notification does not exist, is
\* addressed to another recipient, or the store raises) writes exactly one
\* frame of type error to the connection that sent it, and nothing to any
\* other connection.
C15_FailedMarkReadRepliesError ==
    [][\A c \in ConnIds : FrameStep(c) =>
        \A frame \in Frames, fail \in BOOLEAN :
            (/\ frame.kind = "mark_read"
             /\ fail \/ NotOwn(frame.notification_id, conns[c].employee_id)
             /\ Receive(c, frame, fail))
            => /\ Len(conns'[c].received) = Len(conns[c].received) + 1
               /\ conns'[c].received[Len(conns'[c].received)].type = "error"
               /\ \A d \in ConnIds \ {c} :
                     /\ conns'[d].received = conns[d].received
                     /\ conns'[d].inbox = conns[d].inbox
      ]_vars

\* C16: no text frame of the client and no failing send of a push closes a
\* connection: after receive() of any frame and after send_leave_notification
\* with any send failure the connection is open and in its group.
C16_HandlersKeepConnectionOpen ==
    [][\A c \in ConnIds :
        (/\ conns[c].state = "open"
         /\ \/ \E frame \in Frames, fail \in BOOLEAN : Receive(c, frame, fail)
            \/ \E fail \in SendFailures : Deliver(c, fail))
        => /\ conns'[c].state = "open"
           /\ c \in groups'[conns'[c].employee_id]
      ]_vars

\* C17: a connection that connect() has started for employee e is in group
\* user_e and is accepted; the first frame written to an accepted connection
\* is {type: ws_connected, employee_id: e}, also when a payload reached its
\* channel before the acknowledgment, and no later frame is a ws_connected.
C17_AckFirstAndOnce ==
    /\ [](\A c \in ConnIds :
            /\ conns[c].state = "connecting" =>
                  /\ c \in groups[conns[c].employee_id]
                  /\ conns[c].received = <<>>
            /\ conns[c].state = "open" =>
                  /\ c \in groups[conns[c].employee_id]
                  /\ Len(conns[c].received) >= 1
                  /\ conns[c].received[1].type = "ws_connected"
                  /\ conns[c].received[1].employee_id = conns[c].employee_id
                  /\ \A i \in DOMAIN conns[c].received :
                        conns[c].received[i].type = "ws_connected" => i = 1)
    /\ \A c \in ConnIds : (conns[c].state = "connecting") ~> (conns[c].state = "open")

\* C17 witness: an accepted connection has been written its acknowledgment and
\* then an update, and its channel holds a further message.
C17_Witness ==
    \E c \in ConnIds :
        /\ conns[c].state = "open"
        /\ Len(conns[c].received) = 2
        /\ conns[c].received[1].type = "ws_connected"
        /\ conns[c].received[2].type = "leave_notifications_update"
        /\ conns[c].inbox # <<>>

\* The connections whose channel takes messages, and what a step put on the
\* channel of connection c.
Live == {c \in ConnIds : conns[c].state \in {"connecting", "open"}}

Handed(c) ==
    IF Len(conns'[c].inbox) > Len(conns[c].inbox)
    THEN SubSeq(conns'[c].inbox, Len(conns[c].inbox) + 1, Len(conns'[c].inbox))
    ELSE <<>>

\* C18: a payload handed to the group of employee e is put, as it is, on the
\* channel of every connection that is then a member of group user_e and on
\* no other channel; send_leave_notification writes the head of the channel
\* unchanged; so every update a connection is written is addressed to its own
\* employee.
C18_GroupDeliveryUnchanged ==
    [][/\ \A c \in Live : \A i \in DOMAIN Handed(c) :
            /\ c \in groups[Handed(c)[i].to]
            /\ \A d \in Live \cap groups[Handed(c)[i].to] :
                   \E j \in DOMAIN Handed(d) : Handed(d)[j] = Handed(c)[i]
       /\ SubmitToGateway =>
            \A i \in DOMAIN last'.pushed :
                \A c \in Live \cap groups[last'.pushed[i].to] :
                    \E j \in DOMAIN Handed(c) : Handed(c)[j] = last'.pushed[i]
       /\ \A c \in ConnIds :
            /\ Deliver(c, "none") =>
                  conns'[c].received = Append(conns[c].received, Head(conns[c].inbox))
            /\ \A i \in DOMAIN conns'[c].received :
                  conns'[c].received[i].type = "leave_notifications_update" =>
                      /\ conns'[c].received[i].to = conns'[c].employee_id
                      /\ c \in groups'[conns'[c].received[i].to]
      ]_vars

\* C18 witness: two connections of one employee are members of its group and
\* both have been written the same update after their acknowledgment.
C18_Witness ==
    \E c, d \in ConnIds :
        /\ c # d
        /\ conns[c].state = "open" /\ conns[d].state = "open"
        /\ conns[c].employee_id = conns[d].employee_id
        /\ {c, d} \subseteq groups[conns[c].employee_id]
        /\ Len(conns[c].received) >= 2 /\ Len(conns[d].received) >= 2
        /\ conns[c].received[2].type = "leave_notifications_update"
        /\ conns[c].received[2] = conns[d].received[2]

\* C19: a connection that has ended is a member of no group, so no channel of
\* an ended connection holds a message and the group of an employee without a
\* running connection is empty.
C19_EndedConnectionLeavesGroup ==
    /\ \A c \in ConnIds :
          conns[c].state \in {"closed", "crashed"} =>
              /\ \A e \in Creds : c \notin groups[e]
              /\ conns[c].inbox = <<>>
    /\ \A e \in Creds :
          (\A c \in ConnIds : conns[c].employee_id = e => conns[c].state \notin {"connecting", "open"})
              => groups[e] = {}

\* C20: a payload handed to a group that has no running connection is put on
\* no channel and kept nowhere; a connection starts with an empty channel and
\* nothing written, a channel takes only what is handed while its connection
\* is a member, and a connection is written only its acknowledgment, the head
\* of its channel or an error frame. So a connection opened later is written
\* its ws_connected and payloads handed after it joined, and no earlier one.
C20_NothingQueuedForAbsentEmployee ==
    [][/\ SubmitToGateway =>
            ((\A i \in DOMAIN last'.pushed : Live \cap groups[last'.pushed[i].to] = {})
                => conns' = conns /\ groups' = groups)
       /\ \A c \in ConnIds :
            /\ c \notin Live => Handed(c) = <<>>
            /\ (c \notin Live /\ conns'[c].state = "connecting") =>
                  /\ conns'[c].inbox = <<>>
                  /\ conns'[c].received = <<>>
            /\ (conns'[c].state = "open" /\ conns'[c].received # conns[c].received) =>
                  /\ Len(conns'[c].received) = Len(conns[c].received) + 1
                  /\ SubSeq(conns'[c].received, 1, Len(conns[c].received)) = conns[c].received
                  /\ LET frame == conns'[c].received[Len(conns'[c].received)]
                     IN  \/ conns[c].state = "connecting" /\ frame.type = "ws_connected"
                         \/ frame.type = "error"
                         \/ conns[c].inbox # <<>> /\ frame = Head(conns[c].inbox)
      ]_vars

\* C20 witness: a submission handed a payload to the group of employee e; a
\* connection of e that holds no payload of that submission, so one that
\* joined later, has been written its acknowledgment and then the update of
\* a later mark_read, and nothing else.
C20_Witness ==
    \E c \in ConnIds :
        /\ last.op = "apply_leave"
        /\ \E i \in DOMAIN last.pushed : last.pushed[i].to = conns[c].employee_id
        /\ conns[c].state = "open"
        /\ conns[c].inbox = <<>>
        /\ Len(conns[c].received) = 2
        /\ conns[c].received[1].type = "ws_connected"
        /\ "last_read_notification" \in DOMAIN conns[c].received[2]

\* C21: a connection's channel is a queue: what is handed to the group is
\* added behind what the channel holds, and the consumer takes the oldest
\* message and writes it (or an error frame in its place) behind what it has
\* written. So of two payloads handed one after the other the later one is
\* never written to the connection before the earlier one.
C21_DeliveredInSendOrder ==
    [][\A c \in ConnIds :
        LET old == conns[c]
            new == conns'[c]
        IN  (old.state \in {"connecting", "open"} /\ new.state \in {"connecting", "open"}) =>
              /\ Len(new.inbox) >= Len(old.inbox) =>
                    /\ SubSeq(new.inbox, 1, Len(old.inbox)) = old.inbox
                    /\ (new.inbox # old.inbox => new.received = old.received)
              /\ Len(new.inbox) < Len(old.inbox) =>
                    /\ new.inbox = Tail(old.inbox)
                    /\ new.received \in {Append(old.received, Head(old.inbox)),
                                         Append(old.received,
                                                ErrorReply("Error processing notification"))}
              /\ Len(new.received) >= Len(old.received)
              /\ SubSeq(new.received, 1, Len(old.received)) = old.received
      ]_vars

\* C21 witness: a connection held the payload of a submission and, behind it,
\* the update of a mark_read, and has been written both in that order.
C21_Witness ==
    \E c \in ConnIds :
        /\ conns[c].state = "open"
        /\ Len(conns[c].received) = 3
        /\ conns[c].received[2] \in {last.pushed[i] : i \in DOMAIN last.pushed}
        /\ "last_read_notification" \in DOMAIN conns[c].received[3]
        /\ conns[c].received[3].unread_count < conns[c].received[2].unread_count

\* A review, rejection or cancellation request was served: the step returned
\* the response of one of the three views.
TransitionStep ==
    /\ last'.op \in TransitionOps
    /\ last' # last \/ leaves' # leaves

\* C22: approve, reject and cancel create no LeaveNotification row, change
\* none and put no payload on any channel; a row is created only by an accepted
\* apply_leave, and a payload is handed over only by apply_leave and by the
\* receive() of a mark_read.
C22_TransitionsDoNotFanOut ==
    [][/\ TransitionStep =>
            /\ notifs' = notifs
            /\ last'.pushed = <<>>
            /\ conns' = conns /\ groups' = groups
       /\ Len(notifs') # Len(notifs) =>
            /\ Len(notifs') > Len(notifs)
            /\ last'.op = "apply_leave" /\ last'.code = 201
            /\ Len(leaves') = Len(leaves) + 1
       /\ (\E c \in ConnIds : Handed(c) # <<>>) =>
            \/ last'.op = "apply_leave" /\ Len(leaves') = Len(leaves) + 1
            \/ \E d \in ConnIds :
                  /\ conns[d].pc = "listed" /\ conns'[d].pc = "idle"
                  /\ conns[d].frame.kind = "mark_read"
                  /\ leaves' = leaves
      ]_vars

\* C22 witness: a review was accepted while a connection of the application's
\* reviewer is open; the connection has been written its acknowledgment only,
\* its channel is empty and the reviewer's notification is as it was created.
C22_Witness ==
    \E c \in ConnIds, n \in DOMAIN notifs :
        /\ last.op \in TransitionOps /\ last.code = 200
        /\ leaves[last.id].status \in Terminal
        /\ conns[c].state = "open"
        /\ conns[c].employee_id = leaves[last.id].reviewer
        /\ conns[c].inbox = <<>>
        /\ conns[c].received = <<Ack(conns[c].employee_id)>>
        /\ notifs[n].reviewer = conns[c].employee_id
        /\ ~notifs[n].is_read

\* C23: every accepted approve or reject, through handle_leave_action and
\* through reject_leave, stores with the new status the actor as reviewer, the
\* time of the review in reviewed_on and the supplied comment in
\* reviewer_comment.
C23_ReviewRecordsActor ==
    [][/\ \A user \in Creds, id \in LeaveIds, comment \in CommentInputs :
            (/\ \E action \in {"approve", "reject"} :
                    HandleLeaveAction(user, id, action, comment)
             /\ last'.code = 200) =>
                /\ leaves'[id].status \in {"approved", "rejected"}
                /\ leaves'[id].reviewer = user
                /\ leaves'[id].reviewed_on = DateTime(now)
                /\ leaves'[id].reviewer_comment = DictGet(comment, "")
       /\ \A user \in Creds, id \in LeaveIds, reason \in CommentInputs :
            (RejectLeave(user, id, reason) /\ last'.code = 200) =>
                /\ leaves'[id].status = "rejected"
                /\ leaves'[id].reviewer = user
                /\ leaves'[id].reviewed_on = DateTime(now)
                /\ reason # Missing => leaves'[id].reviewer_comment = reason
      ]_vars

\* C24: every accepted cancel, through handle_leave_action with action cancel
\* and through cancel_leave, stores status cancelled and the time of the
\* cancellation on the application.
C24_CancelRecordsTime ==
    [][/\ \A user \in Creds, id \in LeaveIds, comment \in CommentInputs :
            (HandleLeaveAction(user, id, "cancel", comment) /\ last'.code = 200) =>
                /\ leaves[id].employee = user
                /\ leaves'[id].status = "cancelled"
                /\ leaves'[id].reviewed_on \in {DateTime(now), DateOf(now)}
       /\ \A user \in Creds, pk \in LeaveIds :
            (CancelLeave(user, pk) /\ last'.code = 200) =>
                /\ leaves[pk].employee = user
                /\ leaves'[pk].status = "cancelled"
                /\ leaves'[pk].reviewed_on \in {DateTime(now), DateOf(now)}
      ]_vars

\* The credential user is neither the owner nor the reviewer nor a CC
\* recipient of the application.
Unrelated(user, leave) ==
    /\ leave.employee # user
    /\ leave.reviewer # user
    /\ user \notin leave.cc_to

\* C25: to an actor who is neither owner nor reviewer nor CC of an existing
\* application, handle_leave_action, reject_leave and cancel_leave give the
\* response they give for an id that does not exist: not found.
C25_UnrelatedActorGetsNotFound ==
    [][/\ \A user \in Creds, id \in DOMAIN leaves :
            Unrelated(user, leaves[id]) =>
                /\ \A action \in Actions, comment \in CommentInputs :
                      HandleLeaveAction(user, id, action, comment) => last'.code = 404
                /\ \A reason \in CommentInputs :
                      RejectLeave(user, id, reason) => last'.code = 404
                /\ CancelLeave(user, id) => last'.code = 404
       /\ \A id \in LeaveIds \ DOMAIN leaves :
            (TransitionStep /\ last'.id = id) => last'.code = 404
      ]_vars

\* The sequence ids lists every row of table ns addressed to r once, no other
\* row, newest first.
ListsRowsOf(ids, ns, r) ==
    /\ {ids[i] : i \in DOMAIN ids} = {n \in DOMAIN ns : ns[n].reviewer = r}
    /\ \A i, j \in DOMAIN ids : i # j => ids[i] # ids[j]
    /\ \A i, j \in DOMAIN ids : i < j => ns[ids[i]].created_at >= ns[ids[j]].created_at

IdsListed(list) == [i \in DOMAIN list |-> list[i].notification_id]

\* C26: the list get_leave_notifications returns to r, the list of every
\* payload apply_leave builds for r and the list receive() builds for r after a
\* mark_read hold the LeaveNotification rows addressed to r, all of them and no
\* other, newest first by created_at.
C26_ListIsRecipientsNewestFirst ==
    /\ [](\A r \in Creds :
            ListsRowsOf(IdsListed(get_leave_notifications(notifs, r, now).notifications),
                        notifs, r))
    /\ [][/\ Len(leaves') > Len(leaves) =>
               \A i \in DOMAIN last'.pushed :
                   ListsRowsOf(IdsListed(last'.pushed[i].notifications), notifs',
                               last'.pushed[i].to)
          /\ \A c \in ConnIds :
               /\ (conns[c].pc = "marked" /\ conns'[c].pc = "listed") =>
                     ListsRowsOf(IdsListed(conns'[c].listed), notifs, conns[c].employee_id)
               /\ (conns[c].pc = "listed" /\ conns'[c].pc = "idle") =>
                     \A d \in ConnIds : \A i \in DOMAIN Handed(d) :
                         Handed(d)[i].notifications = conns[c].listed
          ]_vars

\* C26 witness: a recipient's connection was written a payload that lists two
\* rows, the one of the later application first, while the table also holds a
\* row addressed to someone else.
C26_Witness ==
    \E c \in ConnIds, k \in 1..MaxReceived :
        /\ k <= Len(conns[c].received)
        /\ conns[c].received[k].type = "leave_notifications_update"
        /\ "last_read_notification" \notin DOMAIN conns[c].received[k]
        /\ Len(conns[c].received[k].notifications) = 2
        /\ notifs[conns[c].received[k].notifications[1].notification_id].created_at
              > notifs[conns[c].received[k].notifications[2].notification_id].created_at
        /\ \E n \in DOMAIN notifs : notifs[n].reviewer # conns[c].employee_id

\* C27: every payload an accepted submission builds for a recipient lists all
\* rows addressed to that recipient, those of earlier applications and the
\* one just created, and carries the number of them that are not read.
C27_PushCarriesWholeList ==
    [][Len(leaves') > Len(leaves) =>
         \A i \in DOMAIN last'.pushed :
            LET p == last'.pushed[i]
                listed == {p.notifications[k].notification_id : k \in DOMAIN p.notifications}
            IN  /\ {n \in DOMAIN notifs : notifs[n].reviewer = p.to} \subseteq listed
                /\ \E n \in listed :
                      /\ n \notin DOMAIN notifs
                      /\ notifs'[n].leave_application = last'.id
                      /\ notifs'[n].reviewer = p.to
                /\ Len(p.notifications) =
                      Cardinality({n \in DOMAIN notifs : notifs[n].reviewer = p.to}) + 1
                /\ p.unread_count =
                      Cardinality({n \in DOMAIN notifs :
                                      notifs[n].reviewer = p.to /\ ~notifs[n].is_read}) + 1
      ]_vars

\* C27 witness: the second submission pushed to a recipient who had read the
\* notification of the first: the payload lists both rows and counts one
\* unread.
C27_Witness ==
    /\ last.op = "apply_leave" /\ last.code = 201 /\ last.id = 2
    /\ \E i \in DOMAIN last.pushed :
          /\ Len(last.pushed[i].notifications) = 2
          /\ {notifs[last.pushed[i].notifications[k].notification_id].leave_application :
                k \in 1..2} = {1, 2}
          /\ last.pushed[i].unread_count = 1

\* The rows of table ns addressed to r that are not read.
UnreadRows(ns, r) == {n \in DOMAIN ns : ns[n].reviewer = r /\ ~ns[n].is_read}

\* C28: the unread count of r, as get_unread_count_for_reviewer,
\* unread_leave_notification_count and get_leave_notifications return it and
\* as the pushes carry it, is the number of rows addressed to r with is_read
\* false; an accepted submission raises it by one for each of its recipients,
\* the first mark_read of a notification lowers it by one for its recipient, a
\* repeated mark_read and every other step leave it as it is.
C28_UnreadCountFollowsRows ==
    /\ [](\A r \in Creds :
            /\ get_unread_count_for_reviewer(notifs, r) = Cardinality(UnreadRows(notifs, r))
            /\ unread_leave_notification_count(notifs, r).unread_count
                  = Cardinality(UnreadRows(notifs, r))
            /\ get_leave_notifications(notifs, r, now).unread_count
                  = Cardinality(UnreadRows(notifs, r)))
    /\ [][/\ \A r \in Creds :
               LET before == Cardinality(UnreadRows(notifs, r))
                   after == Cardinality(UnreadRows(notifs', r))
               IN  IF Len(leaves') > Len(leaves)
                   THEN after = before +
                          (IF r \in RecipientsToNotify(leaves'[Len(leaves')]) THEN 1 ELSE 0)
                   ELSE IF \E c \in ConnIds : /\ conns[c].pc = "got" /\ conns'[c].pc = "marked"
                                              /\ conns[c].employee_id = r
                                              /\ ~notifs[conns[c].n].is_read
                   THEN after = before - 1
                   ELSE after = before
          /\ \A c \in ConnIds :
               (conns[c].pc = "listed" /\ conns'[c].pc = "idle") =>
                   \A d \in ConnIds : \A i \in DOMAIN Handed(d) :
                       Handed(d)[i].unread_count =
                           Cardinality(UnreadRows(notifs, conns[c].employee_id))
          /\ Len(leaves') > Len(leaves) =>
               \A i \in DOMAIN last'.pushed :
                   last'.pushed[i].unread_count =
                       Cardinality(UnreadRows(notifs', last'.pushed[i].to))
          ]_vars

\* C28 witness: a recipient marks a notification read a second time: the
\* connection was written the update of the first mark, the row is marked
\* again, and the count is the one that update carried.
C28_Witness ==
    \E c \in ConnIds, k \in 1..MaxReceived :
        /\ k <= Len(conns[c].received)
        /\ conns[c].pc = "marked"
        /\ UpdateOf(conns[c].received[k], conns[c].n)
        /\ notifs[conns[c].n].is_read
        /\ conns[c].received[k].unread_count
              = Cardinality(UnreadRows(notifs, conns[c].employee_id))
        /\ conns[c].received[k].unread_count > 0

\* C29: under submissions, reviews, rejections, cancellations and mark_read
\* frames no LeaveNotification row is deleted; a row changes only in the step
\* in which receive() marks it for a connection of its addressed recipient;
\* its leave_application, recipient, message and created_at never change and
\* is_read never goes back from true to false.
C29_RowsChangeOnlyByOwnMarkRead ==
    [][/\ Len(notifs') >= Len(notifs)
       /\ \A n \in DOMAIN notifs :
            /\ notifs'[n].leave_application = notifs[n].leave_application
            /\ notifs'[n].reviewer = notifs[n].reviewer
            /\ notifs'[n].message = notifs[n].message
            /\ notifs'[n].created_at = notifs[n].created_at
            /\ notifs[n].is_read => notifs'[n].is_read
            /\ notifs'[n] # notifs[n] =>
                  \E c \in ConnIds :
                      /\ conns[c].pc = "got" /\ conns'[c].pc = "marked"
                      /\ conns[c].frame.kind = "mark_read"
                      /\ conns[c].n = n
                      /\ conns[c].employee_id = notifs[n].reviewer
      ]_vars

\* C29 witness: the application was reviewed or cancelled after one of its
\* two recipients had marked the notification read; the other recipient's row
\* is as it was created.
C29_Witness ==
    \E n, m \in DOMAIN notifs :
        /\ last.op \in TransitionOps /\ last.code = 200
        /\ leaves[notifs[n].leave_application].status \in Terminal
        /\ notifs[n].is_read /\ notifs[n].read_at # NoTime
        /\ notifs[m].reviewer # notifs[n].reviewer
        /\ ~notifs[m].is_read /\ notifs[m].read_at = NoTime

\* The form the claim gives a timestamp of instant v when now is instant t.
FormByCalendarDay(v, t) ==
    IF DayOf(v) = DayOf(t) THEN "display"
    ELSE IF DayOf(v) = DayOf(t) - 1 THEN "yesterday"
    ELSE "date"

\* C30: format_time_style returns the display form exactly for a timestamp on
\* the calendar day of now, the Yesterday form exactly for one on the calendar
\* day before, the dated form for any other, and null for no timestamp; so do
\* the created_at and read_at of every row get_leave_notifications returns.
C30_FormatByCalendarDay ==
    /\ \A n \in DOMAIN notifs :
          /\ format_time_style(DateTime(notifs[n].created_at), now).form
                = FormByCalendarDay(notifs[n].created_at, now)
          /\ format_time_style(notifs[n].read_at, now).form
                = IF notifs[n].read_at = NoTime THEN "null"
                  ELSE FormByCalendarDay(notifs[n].read_at.v, now)
    /\ "body" \in DOMAIN last =>
          \A i \in DOMAIN last.body.notifications :
             LET row == last.body.notifications[i]
             IN  /\ row.created_at.form
                       = FormByCalendarDay(notifs[row.notification_id].created_at, now)
                 /\ row.read_at.form = "null" <=> notifs[row.notification_id].read_at = NoTime

\* No handler is between its awaits and no channel holds a message.
Quiescent ==
    \A c \in ConnIds : conns[c].pc = "idle" /\ conns[c].inbox = <<>>

\* The updates written to connection c, in order. When the state is
\* quiescent the last of them is the latest payload computed for the
\* connection's employee since the connection joined the group.
IsUpdate(frame) == frame.type = "leave_notifications_update"
UpdatesWritten(c) == SelectSeq(conns[c].received, IsUpdate)

\* What a payload or a response shows: the ids with their is_read values.
Shown(list) ==
    {[notification_id |-> list[i].notification_id, is_read |-> list[i].is_read] :
        i \in DOMAIN list}

\* C31: in a quiescent state get_leave_notifications returns to recipient r
\* the notification ids, is_read values and unread count of the most recent
\* payload computed for r.
C31_FetchEqualsLatestPush ==
    Quiescent =>
        \A c \in ConnIds :
            (conns[c].state = "open" /\ UpdatesWritten(c) # <<>>) =>
                LET p == UpdatesWritten(c)[Len(UpdatesWritten(c))]
                    fetched == get_leave_notifications(notifs, conns[c].employee_id, now)
                IN  /\ Shown(p.notifications) = Shown(fetched.notifications)
                    /\ p.unread_count = fetched.unread_count

\* C33: every notification id listed in an update written to a client names
\* a LeaveNotification row the store holds, addressed to that client's
\* employee: no payload of a submission that was rolled back is written.
C33_DeliveredIdsAreCommitted ==
    \A c \in ConnIds : \A k \in DOMAIN conns[c].received :
        IsUpdate(conns[c].received[k]) =>
            \A i \in DOMAIN conns[c].received[k].notifications :
                LET n == conns[c].received[k].notifications[i].notification_id
                IN  /\ n \in DOMAIN notifs
                    /\ notifs[n].reviewer = conns[c].employee_id

\* C34: when handing a payload over raises for a recipient during
\* apply_leave, the application and all its notifications are rolled back, the
\* response is 500, and the push is not tried again: the failing recipient and
\* those after it are handed nothing and no recipient is handed two payloads.
C34_PushFailureUndoesSubmission ==
    [][\A rq \in FailingGatewayRequests :
         (rq.fail = "push" /\ ApplyLeave(rq)) =>
            /\ leaves' = leaves /\ notifs' = notifs
            /\ last'.code = 500
            /\ Len(last'.pushed) = rq.k - 1
            /\ \A i \in DOMAIN last'.pushed : last'.pushed[i].to = rq.order[i]
            /\ \A d \in ConnIds : Len(Handed(d)) <= 1
            /\ \A d \in ConnIds : \A i \in DOMAIN Handed(d) :
                  \E j \in 1..(rq.k - 1) : Handed(d)[i].to = rq.order[j]
      ]_vars

\* C34 witness: a submission answered 500 after one payload was handed over;
\* the store holds no row of it and the recipient's connection was written
\* that one payload.
C34_Witness ==
    /\ last.op = "apply_leave" /\ last.code = 500
    /\ Len(last.pushed) = 1
    /\ leaves = <<>> /\ notifs = <<>>
    /\ \E c \in ConnIds :
          /\ conns[c].state = "open"
          /\ conns[c].inbox = <<>>
          /\ conns[c].received = <<Ack(conns[c].employee_id), last.pushed[1]>>

\* The entries of a payload's own notifications list that are unread.
UnreadListed(p) == {i \in DOMAIN p.notifications : ~p.notifications[i].is_read}

\* The frames of a channel or of a client's log.
PayloadsOf(q) == {q[i] : i \in DOMAIN q}

\* C35: in every leave_notifications_update payload, queued on a channel or
\* written to a client, unread_count is the number of entries of the payload's
\* own notifications list with is_read false, whatever commits between the
\* handler's list query and its count query.
C35_UnreadCountMatchesOwnList ==
    \A c \in ConnIds :
        \A p \in PayloadsOf(conns[c].inbox) \cup PayloadsOf(conns[c].received) :
            IsUpdate(p) => p.unread_count = Cardinality(UnreadListed(p))
====
